---------------------------- MODULE Spec2Model ----------------------------
(***************************************************************************)
(* Model of tauphi: the symbol index (tauphi/src/symbols.rs) and the perf  *)
(* event sampler (perf_event/src/lib.rs, perf_event/src/sampling.rs).      *)
(*                                                                         *)
(* The specifications share the module.  Spec runs the symbol index on     *)
(* single addresses: PidResolver::new over one snapshot of mapped regions, *)
(* then resolve and drop.  SpecSample runs it on whole samples             *)
(* (resolve_sample).  SpecPerf runs the perf handle: opening, get_sample,  *)
(* explicit start and stop, and release.  SpecMaps reads the text of       *)
(* /proc/<pid>/maps (parse_map_line, PIDInfo::new).  SpecAsync and         *)
(* FairSpecAsync run AsyncSampler::get_sample against the kernel and the   *)
(* reactor, FairSpecIter the blocking iterator.  SpecPipe runs             *)
(* SymbolResolver::resolve and its child line by line.  The variables of   *)
(* the parts a specification does not run keep their initial values.       *)
(***************************************************************************)
EXTENDS Integers, Sequences, FiniteSets, TLC

VARIABLES
    mapped_regions, \* PIDInfo.mapped_regions: the snapshot PidResolver::new reads
    pc,             \* where the PidResolver is: "init", "ready", "err", "dropped"
    regions,        \* PidResolver.regions: BTreeMap keyed by region end
    resolvers,      \* PidResolver.resolvers: Vec<(PathBuf, SymbolResolver)>
    workers,        \* the addr2line child processes, in spawn order
    lastCall,       \* the last resolve / resolve_sample call and what it returned
    page_size,      \* sysconf(_SC_PAGE_SIZE) of the machine
    spc,            \* where the perf handle is: "init", "handle", "sampler",
                    \* "async", "err", "panicked", "dropped"
    handleLog,      \* the pe_* calls made on the handle, in order
    openArgs,       \* the arguments of the pe_open_event_sampler call, if made
    lastSample,     \* the last Sampler::get_sample call and what it returned
    maps,           \* the lines of /proc/<pid>/maps as BufReader::lines yields them
    info,           \* what PIDInfo::new returned, None before the call
    ring,           \* the records in the perf ring buffer, oldest first
    produced,       \* how many records the kernel has written
    wakeup,         \* the kernel's wakeup counter: records since the last POLLIN
    pollin,         \* POLLIN was raised and the reactor has not seen it yet
    ready,          \* the readiness the AsyncFd caches for the descriptor
    apc,            \* where each caller of AsyncSampler::get_sample is
    running,        \* the caller the scheduler runs, 0 when it runs none
    returned,       \* what get_sample().await and next() returned, in order
    abandoned,      \* a pending get_sample call has been abandoned
    atCall,         \* whether the buffer held a record when each call began
    ipc,            \* where Iterator::next is: "idle", "poll", "yield"
    toChild,        \* the lines in the pipe to addr2line's standard input
    fromChild,      \* the lines in the pipe from addr2line's standard output
    asked,          \* the addresses SymbolResolver::resolve was called with
    answers,        \* the pairs SymbolResolver::resolve returned, in order
    rpc,            \* where resolve is: "idle", "written", "read1"
    function_name,  \* the first line resolve has read, while it reads on
    wrote,          \* how many lines resolve has written to the child
    taken           \* how many lines resolve has read from the child

symVars == <<mapped_regions, pc, regions, resolvers, workers, lastCall>>

perfVars == <<page_size, spc, handleLog, openArgs, lastSample>>

mapVars == <<maps, info>>

pipeVars == <<toChild, fromChild, asked, answers, rpc, function_name, wrote,
              taken>>

chanVars == <<ring, produced, wakeup, pollin, ready, apc, running,
              returned, abandoned, atCall, ipc>>

vars == <<mapped_regions, pc, regions, resolvers, workers, lastCall,
          page_size, spc, handleLog, openArgs, lastSample,
          maps, info,
          ring, produced, wakeup, pollin, ready, apc, running,
          returned, abandoned, atCall, ipc,
          toChild, fromChild, asked, answers, rpc, function_name, wrote,
          taken>>

-----------------------------------------------------------------------------
(* Bounds of the model *)

\* The kernel writes at most MaxRecords records into the ring buffer.
MaxRecords == 2

\* A listing of /proc/<pid>/maps has at most MaxLines lines.
MaxLines == 2

\* Addresses of the modelled address space are 0 .. MaxAddr.
MaxAddr == 3

\* Longest snapshot (number of mapped regions).
MaxRegions == 3

\* Longest callchain of a sample handed to resolve_sample.
MaxChain == 2

\* Sampling frequencies are 0 .. MaxFrequency, and that of main.rs.
MaxFrequency == 10

\* Most explicit calls (start, stop, get_sample) made on one handle.
MaxCalls == 3

-----------------------------------------------------------------------------
(* Option<T>: None is the empty sequence, Some(x) the one-element sequence *)

None == <<>>

Some(x) == <<x>>

IsSome(o) == Len(o) = 1

Min(S) == CHOOSE x \in S : \A y \in S : x <= y

-----------------------------------------------------------------------------
(* Inputs *)

Addrs == 0 .. MaxAddr

\* Paths of the snapshot: a binary and a library.
Files == {"/bin/app", "/lib/libc.so"}

\* File offsets a region may be mapped at.
Offsets == {0, 1}

\* MappedRegion, as /proc/<pid>/maps lists it: a non-empty address range.
MappedRegion ==
    {r \in [file : Files, begin : Addrs, end : Addrs, offset : Offsets] :
        r.begin < r.end}

\* The snapshots of at most n regions: /proc/<pid>/maps lists the regions
\* of one address space in ascending order, none overlapping another.
RECURSIVE Snapshots(_)
Snapshots(n) ==
    IF n = 0 THEN {<<>>}
    ELSE LET S == Snapshots(n - 1) IN
         S \cup {Append(s, r) : <<s, r>> \in
                    {p \in S \X MappedRegion :
                        /\ Len(p[1]) = n - 1
                        /\ (p[1] # <<>> => p[1][Len(p[1])].end <= p[2].begin)}}

-----------------------------------------------------------------------------
(* SymbolResolver: one addr2line child process bound to one file *)

\* What SymbolResolver::new yields when the spawn succeeds: a child that
\* has been neither killed nor waited for.  A child is "running" (answers
\* two lines per address), "exiting" (it leaves without an answer: what is
\* written to it is lost and its output is at end-of-file) or "exited" (its
\* end of the input pipe is closed, a write fails), and "reaped" once
\* waited for.
SymbolResolverNew(filename) ==
    [path |-> filename, status |-> "running", kills |-> 0, waits |-> 0]

\* self.child.kill(): SIGKILL is sent; it succeeds on a child that has
\* exited and was not waited for yet.
ChildKill(w) == [w EXCEPT !.kills = @ + 1, !.status = "killed"]

\* self.child.wait(): the child is reaped once it has ended; waiting for a
\* child that still runs blocks, as its input pipe is open until after drop.
ChildWait(w) ==
    [w EXCEPT !.waits = @ + 1,
              !.status = IF @ = "running" THEN "blocked" ELSE "reaped"]

\* A drop that waits for the child without killing it.
DropSymbolResolverNoKill(w) == ChildWait(w)

\* Drop for SymbolResolver: kill the child, then wait for it.
DropSymbolResolver(w) == ChildWait(ChildKill(w))

\* The two lines addr2line answers for an address of its file.
Addr2Line(path, address) ==
    [func |-> <<"fn", path, address>>, file |-> <<"loc", path, address>>]

\* The two empty lines read_line leaves at end-of-file.
EmptyLines == [func |-> <<>>, file |-> <<>>]

\* SymbolResolver::resolve on child w: Ok((function_name, source)) as
\* Some(..), Err as None.  writeln! fails on an exited child; at
\* end-of-file read_line returns Ok(0) and both strings stay empty.
SymbolResolve(w, address) ==
    CASE w.status = "running" -> Some(Addr2Line(w.path, address))
      [] w.status = "exiting" -> Some(EmptyLines)
      [] OTHER -> None

\* The child after SymbolResolver::resolve: reading end-of-file from an
\* exiting child means it has exited.
AfterResolve(w) ==
    IF w.status = "exiting" THEN [w EXCEPT !.status = "exited"] ELSE w

-----------------------------------------------------------------------------
(* PidResolver::new *)

\* A lookup that compares the path of the newest pool entry only.
PositionOfLast(pool, file) ==
    IF pool # <<>> /\ pool[Len(pool)].path = file THEN Len(pool) ELSE 0

\* resolvers.iter().position(|(x, _)| region.file.eq(x)): the first pool
\* entry of that path, 0 for None.  The pool is indexed from 1 here, from 0
\* in the source.
Position(pool, file) ==
    LET hits == {i \in 1 .. Len(pool) : pool[i].path = file}
    IN  IF hits = {} THEN 0 ELSE Min(hits)

\* regions.insert(region.end, PidRegionResolver {..}): an entry of the same
\* key is replaced.
RegionsInsert(regs, region, i) ==
    (region.end :> [begin |-> region.begin, end |-> region.end,
                    start_offset |-> region.offset, resolver_idx |-> i])
        @@ regs

\* An index taken one too low: that of the entry pushed before.
PushedIndexOneBelow(pool) == Len(pool) - 1

\* The index a new pool entry gets: resolvers.len() - 1 after the push,
\* which is the pool's length in the model's indexing from 1.
PushedIndex(pool) == Len(pool)

\* The loop of PidResolver::new from region i on.  failAt is the spawn
\* attempt the system refuses (0: none); on a refused spawn the ? operator
\* returns the error at once.
RECURSIVE NewLoop(_, _, _, _)
NewLoop(rs, i, st, failAt) ==
    IF i > Len(rs) THEN st
    ELSE LET region == rs[i]
             found == Position(st.resolvers, region.file)
         IN  IF found # 0
             THEN NewLoop(rs, i + 1,
                      [st EXCEPT !.regions = RegionsInsert(@, region, found)],
                      failAt)
             ELSE IF Len(st.workers) + 1 = failAt
             THEN [st EXCEPT !.err = TRUE]
             ELSE LET pool == Append(st.resolvers,
                                  [path |-> region.file,
                                   child |-> Len(st.workers) + 1])
                  IN  NewLoop(rs, i + 1,
                          [regions |-> RegionsInsert(st.regions, region,
                                                     PushedIndex(pool)),
                           resolvers |-> pool,
                           workers |-> Append(st.workers,
                                          SymbolResolverNew(region.file)),
                           err |-> FALSE],
                          failAt)

\* The children after the pool is dropped: each pool entry's SymbolResolver
\* is dropped.
DropPool(pool, ws) ==
    [c \in 1 .. Len(ws) |->
        IF \E k \in 1 .. Len(pool) : pool[k].child = c
        THEN DropSymbolResolver(ws[c]) ELSE ws[c]]

\* PidResolver::new: Ok(Self { regions, resolvers }), or the spawn error,
\* on which the locals go out of scope and the pool built so far is dropped.
PidResolverNew(rs, failAt) ==
    LET st == NewLoop(rs, 1,
                  [regions |-> <<>>, resolvers |-> <<>>, workers |-> <<>>,
                   err |-> FALSE], failAt)
    IN  IF st.err
        THEN [regions |-> <<>>, resolvers |-> <<>>,
              workers |-> DropPool(st.resolvers, st.workers), err |-> TRUE]
        ELSE st

-----------------------------------------------------------------------------
(* PidResolver::resolve and PidResolver::resolve_sample *)

\* The bounds of the ordered query: range((Included(ip), Unbounded)).
RangeKeys(regs, ip) == {k \in DOMAIN regs : k >= ip}

\* self.regions.range(..).next(): the entry of the smallest key in range,
\* None when the range is empty.
RangeNext(regs, ip) ==
    LET ks == RangeKeys(regs, ip)
    IN  IF ks = {} THEN None ELSE Some(regs[Min(ks)])

\* A bounds check that leaves out the lower bound.
InRegionUpperOnly(region, ip) == ip < region.end

\* region.begin <= ip && ip < region.end
InRegion(region, ip) == region.begin <= ip /\ ip < region.end

\* The address handed to the translator: ip - region.begin + region.start_offset.
FileAddress(region, ip) == ip - region.begin + region.start_offset

\* PidResolver::resolve(ip) on the pool and children ws: what it returns,
\* the requests it wrote to translators (pool index, address), and the
\* children afterwards.
PidResolve(regs, pool, ws, ip) ==
    LET next == RangeNext(regs, ip)
        miss == [ret |-> None, sent |-> <<>>, workers |-> ws]
    IN  IF next = None THEN miss
        ELSE LET region == next[1] IN
             IF InRegion(region, ip)
             THEN LET c == pool[region.resolver_idx].child
                      address == FileAddress(region, ip)
                      got == SymbolResolve(ws[c], address)
                  IN  [ret |-> IF IsSome(got) THEN Some(got[1]) ELSE None,
                       sent |-> <<[idx |-> region.resolver_idx,
                                   address |-> address]>>,
                       workers |-> [ws EXCEPT ![c] = AfterResolve(@)]]
             ELSE miss

\* sample.callchain.iter().map(|x| self.resolve(*x as usize)).collect(),
\* from entry i on: the resolved entries in order, the requests written and
\* the children afterwards.
RECURSIVE ResolveChain(_, _, _, _, _)
ResolveChain(regs, pool, st, chain, i) ==
    IF i > Len(chain) THEN st
    ELSE LET r == PidResolve(regs, pool, st.workers, chain[i])
         IN  ResolveChain(regs, pool,
                 [callchain |-> Append(st.callchain, r.ret),
                  sent |-> st.sent \o r.sent,
                  workers |-> r.workers],
                 chain, i + 1)

\* A resolve_sample that keeps the resolved callchain entries only.
PidResolveSampleKnownOnly(regs, pool, ws, sample) ==
    LET cc == ResolveChain(regs, pool,
                  [callchain |-> <<>>, sent |-> <<>>, workers |-> ws],
                  sample.callchain, 1)
        ip == PidResolve(regs, pool, cc.workers, sample.ip)
    IN  [ret |-> [orig |-> sample, ip |-> ip.ret,
                  callchain |-> SelectSeq(cc.callchain, IsSome)],
         sent |-> cc.sent \o ip.sent,
         workers |-> ip.workers]

\* PidResolver::resolve_sample: the callchain is resolved first, then ip.
PidResolveSample(regs, pool, ws, sample) ==
    LET cc == ResolveChain(regs, pool,
                  [callchain |-> <<>>, sent |-> <<>>, workers |-> ws],
                  sample.callchain, 1)
        ip == PidResolve(regs, pool, cc.workers, sample.ip)
    IN  [ret |-> [orig |-> sample, ip |-> ip.ret, callchain |-> cc.callchain],
         sent |-> cc.sent \o ip.sent,
         workers |-> ip.workers]

\* sampling::Sample values handed to resolve_sample.
RECURSIVE Chains(_)
Chains(n) ==
    IF n = 0 THEN {<<>>}
    ELSE LET S == Chains(n - 1) IN
         S \cup {Append(s, a) : <<s, a>> \in
                    {p \in S \X Addrs : Len(p[1]) = n - 1}}

Samples ==
    {[ip |-> a, pid |-> 7, tid |-> 8, time |-> 9, cpu |-> 1, callchain |-> c] :
        <<a, c>> \in Addrs \X Chains(MaxChain)}

-----------------------------------------------------------------------------
(* The symbol index as a state machine *)

NoCall == [op |-> "none", arg |-> None, ret |-> None, sent |-> <<>>,
           before |-> <<>>]

\* Snapshots the whole-sample resolution is run over: an empty map; the two
\* adjacent regions of one file; two files with a gap between them; three
\* adjacent regions, the first and last of one file.
SampleSnapshots ==
    {<<>>,
     <<[file |-> "/bin/app", begin |-> 0, end |-> 1, offset |-> 0],
       [file |-> "/bin/app", begin |-> 1, end |-> 2, offset |-> 1]>>,
     <<[file |-> "/bin/app", begin |-> 0, end |-> 1, offset |-> 0],
       [file |-> "/lib/libc.so", begin |-> 2, end |-> 3, offset |-> 0]>>,
     <<[file |-> "/bin/app", begin |-> 0, end |-> 1, offset |-> 0],
       [file |-> "/lib/libc.so", begin |-> 1, end |-> 2, offset |-> 0],
       [file |-> "/bin/app", begin |-> 2, end |-> 3, offset |-> 1]>>}

\* The symbol index before PidResolver::new, for one of the given snapshots.
SymIdle(snapshots) ==
    /\ mapped_regions \in snapshots
    /\ pc = "init"
    /\ regions = <<>>
    /\ resolvers = <<>>
    /\ workers = <<>>
    /\ lastCall = NoCall

\* PidResolver::new(pid): PIDInfo::new fails (the map cannot be read) and
\* the error is returned before anything is spawned, or the loop runs over
\* the snapshot; the system may refuse one spawn.
New ==
    /\ pc = "init"
    /\ \E readOk \in BOOLEAN, failAt \in 0 .. Len(mapped_regions) :
          LET r == IF readOk THEN PidResolverNew(mapped_regions, failAt)
                   ELSE [regions |-> <<>>, resolvers |-> <<>>,
                         workers |-> <<>>, err |-> TRUE]
          IN
          /\ pc' = IF r.err THEN "err" ELSE "ready"
          /\ regions' = r.regions
          /\ resolvers' = r.resolvers
          /\ workers' = r.workers
    /\ UNCHANGED <<mapped_regions, lastCall>>
    /\ UNCHANGED <<perfVars, mapVars, chanVars, pipeVars>>

\* resolver.resolve(ip)
Resolve ==
    /\ pc = "ready"
    /\ lastCall.op = "none"
    /\ \E ip \in Addrs :
          LET r == PidResolve(regions, resolvers, workers, ip) IN
          /\ lastCall' = [op |-> "resolve", arg |-> ip, ret |-> r.ret,
                          sent |-> r.sent, before |-> workers]
          /\ workers' = r.workers
    /\ UNCHANGED <<mapped_regions, pc, regions, resolvers>>
    /\ UNCHANGED <<perfVars, mapVars, chanVars, pipeVars>>

\* resolver.resolve_sample(sample)
ResolveSample ==
    /\ pc = "ready"
    /\ lastCall.op = "none"
    /\ \E sample \in Samples :
          LET r == PidResolveSample(regions, resolvers, workers, sample) IN
          /\ lastCall' = [op |-> "resolve_sample", arg |-> sample,
                          ret |-> r.ret, sent |-> r.sent, before |-> workers]
          /\ workers' = r.workers
    /\ UNCHANGED <<mapped_regions, pc, regions, resolvers>>
    /\ UNCHANGED <<perfVars, mapVars, chanVars, pipeVars>>

\* The caller has taken the value the call returned; the next call may start.
ReturnToCaller ==
    /\ lastCall.op # "none"
    /\ lastCall' = NoCall
    /\ UNCHANGED <<mapped_regions, pc, regions, resolvers, workers>>
    /\ UNCHANGED <<perfVars, mapVars, chanVars, pipeVars>>

\* An addr2line child stops serving: it is on its way out (addr2line exits
\* when it cannot open its file), and then gone.
ChildLeaves ==
    /\ pc = "ready"
    /\ \E c \in 1 .. Len(workers) :
          \/ /\ workers[c].status = "running"
             /\ workers' = [workers EXCEPT ![c].status = "exiting"]
          \/ /\ workers[c].status = "exiting"
             /\ workers' = [workers EXCEPT ![c].status = "exited"]
    /\ UNCHANGED <<mapped_regions, pc, regions, resolvers, lastCall>>
    /\ UNCHANGED <<perfVars, mapVars, chanVars, pipeVars>>

\* The PidResolver goes out of scope: its pool is dropped.
DropPidResolver ==
    /\ pc = "ready"
    /\ pc' = "dropped"
    /\ workers' = DropPool(resolvers, workers)
    /\ regions' = <<>>
    /\ resolvers' = <<>>
    /\ UNCHANGED <<mapped_regions, lastCall>>
    /\ UNCHANGED <<perfVars, mapVars, chanVars, pipeVars>>

-----------------------------------------------------------------------------
(* perf_event: sizes and the arguments Sampler::new computes *)

\* Maximum entries in the stack trace.
CALLCHAIN_DEPTH == 123

\* How often POLLIN is triggered on the sampler, in milliseconds.
POLL_FREQUENCY_MS == 100

\* Seconds of pending samples the perf buffer is meant to store.
BUFFER_SIZE_SECS == 10

\* mem::size_of::<Sample>() on a 64-bit target: two u64, a Vec<u64> of three
\* words and three u32, rounded up to the alignment of 8.
SampleSize == 56

\* mem::size_of::<RawSample>(): the #[repr(C)] fields in order.
RawSampleSize == 8 + 4 + 4 + 8 + 4 + 4 + 8 + 8 * CALLCHAIN_DEPTH

\* The fields of RawSample in declaration order, with size and alignment
\* in bytes: ip, pid, tid, time, cpu, cpu_pad, callchain_entries, callchain.
RawSampleFields ==
    << [size |-> 8, align |-> 8], [size |-> 4, align |-> 4],
       [size |-> 4, align |-> 4], [size |-> 8, align |-> 8],
       [size |-> 4, align |-> 4], [size |-> 4, align |-> 4],
       [size |-> 8, align |-> 8],
       [size |-> 8 * CALLCHAIN_DEPTH, align |-> 8] >>

AlignUp(n, a) == ((n + a - 1) \div a) * a

\* #[repr(C)]: the offset of field k, every field placed at the next
\* multiple of its alignment after the field before it.
RECURSIVE OffsetOf(_, _)
OffsetOf(fields, k) ==
    IF k = 1 THEN 0
    ELSE AlignUp(OffsetOf(fields, k - 1) + fields[k - 1].size,
                 fields[k].align)

\* #[repr(C)]: the size of the struct, a multiple of its largest alignment.
SizeOf(fields) ==
    LET last == Len(fields)
        align == CHOOSE a \in {fields[k].align : k \in 1 .. last} :
                     \A k \in 1 .. last : fields[k].align <= a
    IN  AlignUp(OffsetOf(fields, last) + fields[last].size, align)

\* A header size that takes off one byte per callchain slot.
FixedHeaderLessSlotCount == RawSampleSize - CALLCHAIN_DEPTH

\* Size of the fixed part of RawSample, without the trailing callchain.
FIXED_HEADER_SIZE == RawSampleSize - 8 * CALLCHAIN_DEPTH

Max(a, b) == IF a >= b THEN a ELSE b

\* usize::next_power_of_two: the smallest power of two >= n (1 for 0).
RECURSIVE PowerOfTwoFrom(_, _)
PowerOfTwoFrom(p, n) == IF p >= n THEN p ELSE PowerOfTwoFrom(2 * p, n)

NextPowerOfTwo(n) == PowerOfTwoFrom(1, n)

\* num_pages of Sampler::new; the division is usize division.
NumPages(frequency, ps) ==
    NextPowerOfTwo((BUFFER_SIZE_SECS * frequency * SampleSize) \div ps)

\* A wakeup granularity without the lower limit of 1.
PollFreqUnclamped(frequency) == frequency \div (1000 \div POLL_FREQUENCY_MS)

\* poll_freq of Sampler::new.
PollFreq(frequency) ==
    Max(1, frequency \div (1000 \div POLL_FREQUENCY_MS))

\* Page sizes sysconf reports on Linux targets.
PageSizes == {4096, 16384, 65536}

\* Targets: -1 is "any", the others one CPU index and one process id.
Cpus == {-1, 0}

Pids == {-1, 12}

\* Frequencies asked for: small ones, one that is no multiple of ten, and
\* the 100 Hz of sync_main.
Frequencies == (0 .. MaxFrequency) \cup {19, 100}

-----------------------------------------------------------------------------
(* PerfEventHandle and Sampler *)

\* Whether pe_open_event_sampler can succeed: the kernel refuses to sample
\* all processes on all CPUs, and may refuse any other request as well.
KernelOpens(cpu, pid) == IF cpu = -1 /\ pid = -1 THEN {FALSE} ELSE BOOLEAN

\* A drop that releases the handle without stopping it first.
PerfEventHandleDropNoStop(log) == Append(log, "pe_close")

\* Drop for PerfEventHandle: pe_stop(self), then pe_close(self).
PerfEventHandleDrop(log) == log \o <<"pe_stop", "pe_close">>

\* The argument list of pe_open_event_sampler.
OpenArgs(cpu, pid, frequency, poll_freq, num_pages, depth, via) ==
    [cpu |-> cpu, pid |-> pid, frequency |-> frequency,
     poll_freq |-> poll_freq, num_pages |-> num_pages,
     callchain_depth_limit |-> depth, via |-> via]

\* Sampler::new(cpu, pid, frequency) on a machine of page size ps, where
\* the kernel answers openOk to the open and startOk to the start: the
\* arguments it opens with, the calls it makes on the handle, and whether
\* it returns a Sampler.  On either error the local handle is dropped.
SamplerNew(cpu, pid, frequency, ps, openOk, startOk) ==
    LET args == OpenArgs(cpu, pid, frequency, PollFreq(frequency),
                         NumPages(frequency, ps), CALLCHAIN_DEPTH,
                         "Sampler::new")
    IN  IF ~openOk
        THEN [args |-> args, spc |-> "err",
              log |-> PerfEventHandleDrop(<<"pe_open_event_sampler">>)]
        ELSE IF ~startOk
        THEN [args |-> args, spc |-> "err",
              log |-> PerfEventHandleDrop(
                          <<"pe_open_event_sampler", "pe_start">>)]
        ELSE [args |-> args, spc |-> "sampler",
              log |-> <<"pe_open_event_sampler", "pe_start">>]

\* The RawSample after pe_get_event wrote a record of size bytes over
\* RawSample::default(): the header, and the callchain slots the bytes
\* reach; the slots beyond stay 0.
KernelAddress(i) == 4096 + i

RawSample(size, entries) ==
    [ip |-> 4660, pid |-> 7, tid |-> 8, time |-> 9, cpu |-> 1, cpu_pad |-> 0,
     callchain_entries |-> entries,
     callchain |-> [i \in 1 .. CALLCHAIN_DEPTH |->
                       IF FIXED_HEADER_SIZE + 8 * i <= size
                       THEN KernelAddress(i) ELSE 0]]

\* The end of the callchain slice: raw_sample.callchain_entries as usize.
SliceEnd(raw) == raw.callchain_entries

\* Sampler::get_sample when pe_get_event returned sample_size and left raw
\* in the buffer.  Slicing [0..end] of the 123 slots panics when end > 123.
SamplerGetSample(raw, sample_size) ==
    IF sample_size >= FIXED_HEADER_SIZE
    THEN IF SliceEnd(raw) > CALLCHAIN_DEPTH
         THEN [kind |-> "panic", sample |-> None]
         ELSE [kind |-> "some",
               sample |-> Some([ip |-> raw.ip, pid |-> raw.pid,
                                tid |-> raw.tid, time |-> raw.time,
                                cpu |-> raw.cpu,
                                callchain |->
                                    SubSeq(raw.callchain, 1, SliceEnd(raw))])]
    ELSE [kind |-> "none", sample |-> None]

\* Byte counts pe_get_event returns: nothing, parts of the header, the
\* header alone, the header and some slots, a whole record.
ReadSizes == {0, 8, FIXED_HEADER_SIZE - 1, FIXED_HEADER_SIZE,
              FIXED_HEADER_SIZE + 8, FIXED_HEADER_SIZE + 16, RawSampleSize}

\* Callchain counts a record reports.
EntryCounts == {0, 1, 2, CALLCHAIN_DEPTH, CALLCHAIN_DEPTH + 1,
                CALLCHAIN_DEPTH + 8}

NoSample == [op |-> "none", size |-> 0, entries |-> 0,
             ret |-> [kind |-> "none", sample |-> None]]

-----------------------------------------------------------------------------
(* The perf handle as a state machine *)

\* The handle before it is created, on a machine of any page size.
PerfStart ==
    /\ page_size \in PageSizes
    /\ spc = "init"
    /\ handleLog = <<>>
    /\ openArgs = None
    /\ lastSample = NoSample

\* The calls made on the handle by the caller, after it was built.
Explicit(log) ==
    Len(log) - (IF openArgs # None /\ openArgs[1].via = "Sampler::new"
                THEN 2 ELSE 1)

SamplerNewAction(cpu, pid, frequency) ==
    /\ spc = "init"
    /\ \E openOk \in KernelOpens(cpu, pid), startOk \in BOOLEAN :
          LET r == SamplerNew(cpu, pid, frequency, page_size, openOk, startOk)
          IN  /\ spc' = r.spc
              /\ handleLog' = r.log
              /\ openArgs' = Some(r.args)
    /\ UNCHANGED <<page_size, lastSample>>
    /\ UNCHANGED <<symVars, mapVars, chanVars, pipeVars>>

\* Sampler::new_cpu(cpu, frequency)
SamplerNewCpu ==
    \E cpu \in Cpus, frequency \in Frequencies :
        SamplerNewAction(cpu, -1, frequency)

\* Sampler::new_pid(pid, frequency)
SamplerNewPid ==
    \E pid \in Pids, frequency \in Frequencies :
        SamplerNewAction(-1, pid, frequency)

\* PerfEventHandle::new(cpu, pid, frequency, poll_freq, num_pages, depth):
\* the handle is returned opened and stopped, or dropped on the error.
PerfEventHandleNew ==
    /\ spc = "init"
    /\ \E cpu \in Cpus, pid \in Pids, frequency \in {1, 100},
          num_pages \in {1, 8} :
          \E openOk \in KernelOpens(cpu, pid) :
             /\ openArgs' = Some(OpenArgs(cpu, pid, frequency, 1, num_pages,
                                          CALLCHAIN_DEPTH,
                                          "PerfEventHandle::new"))
             /\ IF openOk
                THEN /\ spc' = "handle"
                     /\ handleLog' = <<"pe_open_event_sampler">>
                ELSE /\ spc' = "err"
                     /\ handleLog' =
                          PerfEventHandleDrop(<<"pe_open_event_sampler">>)
    /\ UNCHANGED <<page_size, lastSample>>
    /\ UNCHANGED <<symVars, mapVars, chanVars, pipeVars>>

\* handle.start(do_reset): Ok or Err(FailedStart), the handle stays as it is.
PerfEventHandleStart ==
    /\ spc = "handle"
    /\ Explicit(handleLog) < MaxCalls
    /\ handleLog' = Append(handleLog, "pe_start")
    /\ UNCHANGED <<page_size, spc, openArgs, lastSample>>
    /\ UNCHANGED <<symVars, mapVars, chanVars, pipeVars>>

\* handle.stop(): Ok or Err(FailedStop), the handle stays as it is.
PerfEventHandleStop ==
    /\ spc = "handle"
    /\ Explicit(handleLog) < MaxCalls
    /\ handleLog' = Append(handleLog, "pe_stop")
    /\ UNCHANGED <<page_size, spc, openArgs, lastSample>>
    /\ UNCHANGED <<symVars, mapVars, chanVars, pipeVars>>

\* AsyncSampler::from_sync(sampler): the registration succeeds, or fails,
\* and then the sampler moved into the call is dropped.
FromSync ==
    /\ spc = "sampler"
    /\ \E ok \in BOOLEAN :
          IF ok
          THEN /\ spc' = "async"
               /\ UNCHANGED handleLog
          ELSE /\ spc' = "err"
               /\ handleLog' = PerfEventHandleDrop(handleLog)
    /\ UNCHANGED <<page_size, openArgs, lastSample>>
    /\ UNCHANGED <<symVars, mapVars, chanVars, pipeVars>>

\* sampler.get_sample(): one pe_get_event call, whose record is decoded.
\* A panic unwinds the caller, which drops the sampler it owns.
GetSample ==
    /\ spc = "sampler"
    /\ Explicit(handleLog) < MaxCalls
    /\ \E size \in ReadSizes, entries \in EntryCounts :
          LET ret == SamplerGetSample(RawSample(size, entries), size) IN
          /\ lastSample' = [op |-> "get_sample", size |-> size,
                            entries |-> entries, ret |-> ret]
          /\ IF ret.kind = "panic"
             THEN /\ spc' = "panicked"
                  /\ handleLog' = PerfEventHandleDrop(
                                      Append(handleLog, "pe_get_event"))
             ELSE /\ spc' = spc
                  /\ handleLog' = Append(handleLog, "pe_get_event")
    /\ UNCHANGED <<page_size, openArgs>>
    /\ UNCHANGED <<symVars, mapVars, chanVars, pipeVars>>

\* The handle, the Sampler or the AsyncSampler goes out of scope.
DropHandle ==
    /\ spc \in {"handle", "sampler", "async"}
    /\ spc' = "dropped"
    /\ handleLog' = PerfEventHandleDrop(handleLog)
    /\ UNCHANGED <<page_size, openArgs, lastSample>>
    /\ UNCHANGED <<symVars, mapVars, chanVars, pipeVars>>

-----------------------------------------------------------------------------
(* /proc/<pid>/maps: text, parse_map_line and PIDInfo::new *)
(* A string is the sequence of its characters.                             *)

HexDigits == <<"0", "1", "2", "3", "4", "5", "6", "7", "8", "9",
               "a", "b", "c", "d", "e", "f">>

\* char::to_digit(16): the value of a hexadecimal digit of either case,
\* None for any other character.
ToDigit(ch) ==
    LET upper == <<"A", "B", "C", "D", "E", "F">> IN
    IF \E d \in 1 .. 16 : HexDigits[d] = ch
    THEN Some((CHOOSE d \in 1 .. 16 : HexDigits[d] = ch) - 1)
    ELSE IF \E d \in 1 .. 6 : upper[d] = ch
    THEN Some((CHOOSE d \in 1 .. 6 : upper[d] = ch) + 9)
    ELSE None

\* The digits of src from position i on, appended to the value acc.
RECURSIVE ParseDigits(_, _, _)
ParseDigits(src, i, acc) ==
    IF i > Len(src) THEN Some(acc)
    ELSE LET d == ToDigit(src[i]) IN
         IF d = None THEN None
         ELSE ParseDigits(src, i + 1, acc * 16 + d[1])

\* usize::from_str_radix(src, 16): Err (None) for the empty string, for a
\* lone sign and for any character that is no digit; one leading '+' is
\* accepted.
FromStrRadix16(src) ==
    IF src = <<>> THEN None
    ELSE IF src[1] = "+"
    THEN IF Len(src) = 1 THEN None ELSE ParseDigits(src, 2, 0)
    ELSE ParseDigits(src, 1, 0)

\* The position of the first ch in src at or after i, 0 if there is none.
RECURSIVE Find(_, _, _)
Find(src, ch, i) ==
    IF i > Len(src) THEN 0
    ELSE IF src[i] = ch THEN i
    ELSE Find(src, ch, i + 1)

\* str::split(pat): every field between two separators.
RECURSIVE SplitEvery(_, _, _)
SplitEvery(src, n, sep) ==
    LET at == Find(src, sep, 1) IN
    IF at = 0 THEN <<src>>
    ELSE <<SubSeq(src, 1, at - 1)>>
         \o SplitEvery(SubSeq(src, at + 1, Len(src)), n, sep)

\* str::splitn(n, pat): at most n fields, the last one the whole rest.
RECURSIVE SplitN(_, _, _)
SplitN(src, n, sep) ==
    LET at == Find(src, sep, 1) IN
    IF n <= 1 \/ at = 0 THEN <<src>>
    ELSE <<SubSeq(src, 1, at - 1)>>
         \o SplitN(SubSeq(src, at + 1, Len(src)), n - 1, sep)

\* str::split_once(delimiter): the text before and after the first
\* delimiter, None without one.
SplitOnce(src, delimiter) ==
    LET at == Find(src, delimiter, 1) IN
    IF at = 0 THEN None
    ELSE Some(<<SubSeq(src, 1, at - 1), SubSeq(src, at + 1, Len(src))>>)

IsWhitespace(ch) == ch \in {" ", "\t"}

\* str::trim(): without leading and trailing whitespace.
RECURSIVE Trim(_)
Trim(src) ==
    IF src = <<>> THEN src
    ELSE IF IsWhitespace(src[1]) THEN Trim(Tail(src))
    ELSE IF IsWhitespace(src[Len(src)]) THEN Trim(SubSeq(src, 1, Len(src) - 1))
    ELSE src

\* parse_map_line(line): line is None when reading it failed.  Err is None,
\* Ok(MappedRegion) is Some(..).
ParseMapLine(line) ==
    IF line = None THEN None
    ELSE LET it == SplitN(line[1], 6, " ") IN
         IF Len(it) < 6 THEN None
         ELSE LET range == SplitOnce(it[1], "-") IN
              IF range = None THEN None
              ELSE LET begin == FromStrRadix16(range[1][1])
                       end == FromStrRadix16(range[1][2])
                       offset == FromStrRadix16(it[3])
                   IN  IF begin = None \/ end = None \/ offset = None
                       THEN None
                       ELSE Some([begin |-> begin[1], end |-> end[1],
                                  offset |-> offset[1],
                                  file |-> Trim(it[6])])

\* A collection that leaves out the lines that do not parse.
RECURSIVE CollectParsed(_, _, _)
CollectParsed(lines, i, acc) ==
    IF i > Len(lines) THEN Some(acc)
    ELSE LET region == ParseMapLine(lines[i]) IN
         CollectParsed(lines, i + 1,
                       IF region = None THEN acc ELSE Append(acc, region[1]))

\* lines().map(parse_map_line).collect::<Result<Vec<_>, _>>() from line i
\* on: the first Err ends the collection and is the result.
RECURSIVE Collect(_, _, _)
Collect(lines, i, acc) ==
    IF i > Len(lines) THEN Some(acc)
    ELSE LET region == ParseMapLine(lines[i]) IN
         IF region = None THEN None
         ELSE Collect(lines, i + 1, Append(acc, region[1]))

\* PIDInfo::new(pid) over the lines of the map: Ok(PIDInfo) or Err.
PIDInfoNew(lines) ==
    LET collected == Collect(lines, 1, <<>>) IN
    IF collected = None THEN [ok |-> FALSE, mapped_regions |-> <<>>]
    ELSE [ok |-> TRUE, mapped_regions |-> collected[1]]

-----------------------------------------------------------------------------
(* /proc/<pid>/maps: the lines the kernel writes and the listings read *)

\* The hexadecimal digits of n, most significant first.
RECURSIVE HexOf(_)
HexOf(n) ==
    IF n < 16 THEN <<HexDigits[n + 1]>>
    ELSE HexOf(n \div 16) \o <<HexDigits[(n % 16) + 1]>>

\* n in hexadecimal, filled with zeros from the left to eight digits.
PadHex(n) ==
    LET RECURSIVE Fill(_)
        Fill(digits) == IF Len(digits) >= 8 THEN digits
                        ELSE Fill(<<"0">> \o digits)
    IN  Fill(HexOf(n))

\* A line of the map: range, permissions, offset, device, inode and, after
\* one more space, the path; a path that is not empty is preceded by
\* filling spaces.
MapLine(range, offset, path) ==
    range \o <<" ", "r", "-", "x", "p", " ">> \o offset
          \o <<" ", "0", "8", ":", "0", "1", " ", "7", " ">>
          \o (IF path = <<>> THEN <<>> ELSE <<" ", " ">> \o path)

\* The line of a region [begin, end) mapped at offset from path.
FormatMapLine(begin, end, offset, path) ==
    MapLine(PadHex(begin) \o <<"-">> \o PadHex(end), PadHex(offset), path)

\* begin and end of the regions of the listings: 0x0-0x1f and
\* 0x400000-0x7fff0000.
MapRanges == {<<0, 31>>, <<4194304, 2147418112>>}

MapOffsets == {0, 4096}

\* An anonymous region, a file, the stack and a deleted file whose name
\* holds a space.
MapPaths ==
    { <<>>,
      <<"/", "b", "i", "n", "/", "a", "p", "p">>,
      <<"[", "s", "t", "a", "c", "k", "]">>,
      <<"/", "a", " ", "b", " ", "(", "d", "e", "l", "e", "t", "e", "d", ")">> }

MapFields ==
    [range : MapRanges, offset : MapOffsets, path : MapPaths]

LineOf(f) == FormatMapLine(f.range[1], f.range[2], f.offset, f.path)

RegionOf(f) ==
    [begin |-> f.range[1], end |-> f.range[2], offset |-> f.offset,
     file |-> f.path]

WellFormedLines == {LineOf(f) : f \in MapFields}

\* Lines that are not of the format: five fields only, a range without
\* '-', a begin that is no number, an end that is missing, an offset with
\* a 0x prefix, and the empty line.
MalformedLines ==
    LET whole == FormatMapLine(0, 31, 0, <<>>) IN
    { SubSeq(whole, 1, Len(whole) - 1),
      MapLine(PadHex(0) \o PadHex(31), PadHex(0), <<>>),
      MapLine(<<"g">> \o <<"-">> \o PadHex(31), PadHex(0), <<>>),
      MapLine(PadHex(0) \o <<"-">>, PadHex(0), <<>>),
      MapLine(PadHex(0) \o <<"-">> \o PadHex(31), <<"0", "x", "1">>, <<>>),
      <<>> }

\* What BufReader::lines yields for one line: the text, or None when the
\* read fails.
MapLines == {Some(l) : l \in WellFormedLines \cup MalformedLines} \cup {None}

\* The listings of at most n lines.
Listings(n) == UNION {[1 .. k -> MapLines] : k \in 0 .. n}

MapIdle == maps = <<>> /\ info = None

MapStart == maps \in Listings(MaxLines) /\ info = None

\* PIDInfo::new(pid)
ReadMaps ==
    /\ info = None
    /\ info' = Some(PIDInfoNew(maps))
    /\ UNCHANGED maps
    /\ UNCHANGED <<symVars, perfVars, chanVars, pipeVars>>

-----------------------------------------------------------------------------
(* The ring buffer, the blocking iterator and AsyncSampler::get_sample *)

\* The tasks that call get_sample on the one AsyncSampler.
Callers == {1, 2}

\* Frequencies the AsyncSampler is opened with: wakeup every record and
\* every second record.
ChannelFrequencies == {5, 20}

\* The n-th record the kernel writes: a whole sample with entries callchain
\* entries, stamped with the time n.
KernelRecord(n, entries) ==
    [time |-> n, size |-> FIXED_HEADER_SIZE + 8 * entries,
     entries |-> entries]

\* The callchain entries of the n-th record: none, then MaxChain, in turn.
ChainOf(n) == IF n % 2 = 0 THEN MaxChain ELSE 0

\* pe_get_event(handle, dest, n, false): the oldest record is copied to
\* dest and leaves the buffer, its size is returned; 0 and an untouched
\* dest when the buffer is empty.
PeGetEvent(buffer) ==
    IF buffer = <<>>
    THEN [size |-> 0, raw |-> RawSample(0, 0), rest |-> buffer]
    ELSE [size |-> Head(buffer).size,
          raw |-> [RawSample(Head(buffer).size, Head(buffer).entries)
                       EXCEPT !.time = Head(buffer).time],
          rest |-> Tail(buffer)]

\* Sampler::get_sample on the buffer: what it returns and what it leaves.
ChannelGetSample(buffer) ==
    LET got == PeGetEvent(buffer) IN
    [ret |-> SamplerGetSample(got.raw, got.size), rest |-> got.rest]

\* The Sample that get_sample decodes from the record written as rec.
SampleOf(rec) ==
    SamplerGetSample([RawSample(rec.size, rec.entries)
                          EXCEPT !.time = rec.time], rec.size).sample[1]

\* The channel of a Sampler opened by Sampler::new_cpu(0, frequency) with
\* one of the frequencies, in the state mode ("sampler", or "async" after
\* from_sync), before any record is written.
ChannelStart(mode, frequencies) ==
    /\ page_size = 4096
    /\ \E frequency \in frequencies :
          LET r == SamplerNew(0, -1, frequency, 4096, TRUE, TRUE) IN
          /\ handleLog = r.log
          /\ openArgs = Some(r.args)
    /\ spc = mode
    /\ lastSample = NoSample
    /\ ring = <<>>
    /\ produced = 0
    /\ wakeup = 0
    /\ pollin = FALSE
    /\ ready = FALSE
    /\ apc = [c \in Callers |-> "idle"]
    /\ running = 0
    /\ returned = <<>>
    /\ abandoned = FALSE
    /\ atCall = [c \in Callers |-> "none"]
    /\ ipc = "idle"

ChannelIdle ==
    /\ ring = <<>>
    /\ produced = 0
    /\ wakeup = 0
    /\ pollin = FALSE
    /\ ready = FALSE
    /\ apc = [c \in Callers |-> "idle"]
    /\ running = 0
    /\ returned = <<>>
    /\ abandoned = FALSE
    /\ atCall = [c \in Callers |-> "none"]
    /\ ipc = "idle"

\* The kernel takes a sample: the record enters the buffer, and when the
\* wakeup counter reaches poll_freq the descriptor is signalled.
KernelWrite ==
    /\ spc \in {"sampler", "async"}
    /\ produced < MaxRecords
    /\ ring' = Append(ring, KernelRecord(produced + 1,
                                         ChainOf(produced + 1)))
    /\ produced' = produced + 1
    /\ IF wakeup + 1 >= openArgs[1].poll_freq
       THEN wakeup' = 0 /\ pollin' = TRUE
       ELSE wakeup' = wakeup + 1 /\ UNCHANGED pollin
    /\ UNCHANGED <<ready, apc, running, returned, abandoned, atCall, ipc>>
    /\ UNCHANGED <<symVars, perfVars, mapVars, pipeVars>>

\* The kernel takes a sample of a stack deeper than the callchain limit:
\* with the context markers the record reports more entries than the
\* CALLCHAIN_DEPTH slots of RawSample.
KernelWriteDeep ==
    /\ spc \in {"sampler", "async"}
    /\ produced < MaxRecords
    /\ ring' = Append(ring, KernelRecord(produced + 1, CALLCHAIN_DEPTH + 1))
    /\ produced' = produced + 1
    /\ IF wakeup + 1 >= openArgs[1].poll_freq
       THEN wakeup' = 0 /\ pollin' = TRUE
       ELSE wakeup' = wakeup + 1 /\ UNCHANGED pollin
    /\ UNCHANGED <<ready, apc, running, returned, abandoned, atCall, ipc>>
    /\ UNCHANGED <<symVars, perfVars, mapVars, pipeVars>>

-----------------------------------------------------------------------------
(* AsyncSampler::get_sample, one step of a caller at a time *)
(* A caller is "idle" (no call pending), at "check" (about to try the      *)
(* buffer), at "await" (about to wait for readiness), in "wait" (suspended *)
(* in readable().await), "notified" (woken, not yet scheduled), "woken"    *)
(* (it holds the readiness guard) or "panicked".                           *)

\* A clear_ready that leaves the cached readiness as it is.
KeepReady(flag) == flag

\* guard.clear_ready(): the cached readiness is dropped.
ClearReady(flag) == FALSE

\* A loop that waits for readiness again without trying the buffer.
AfterClearAwait == "await"

\* Where the loop goes on after clear_ready: back to its top.
AfterClear == "check"

\* An abandoned call whose waiter stays registered.
AbandonKeepsWaiter(pcs, c) == pcs

\* Dropping the future of a suspended call: its waiter leaves the
\* registration, nothing else of the AsyncSampler is touched.
Abandon(pcs, c) == [pcs EXCEPT ![c] = "idle"]

\* sampler.get_sample() is called and polled for the first time.
AsyncCall(c) ==
    /\ spc = "async"
    /\ running = 0
    /\ apc[c] = "idle"
    /\ apc' = [apc EXCEPT ![c] = "check"]
    /\ running' = c
    /\ atCall' = [atCall EXCEPT
                     ![c] = IF ring = <<>> THEN "empty" ELSE "buffered"]
    /\ UNCHANGED <<ring, produced, wakeup, pollin, ready, returned,
                   abandoned, ipc>>
    /\ UNCHANGED <<symVars, perfVars, mapVars, pipeVars>>

\* if let Some(sample) = self.poll_fd.get_ref().get_sample() { return .. }
AsyncCheck(c) ==
    /\ running = c
    /\ apc[c] = "check"
    /\ LET r == ChannelGetSample(ring) IN
       /\ ring' = r.rest
       /\ CASE r.ret.kind = "some" ->
                 /\ returned' = Append(returned,
                                       [caller |-> c, ret |-> r.ret.sample,
                                        abandoned |-> abandoned])
                 /\ apc' = [apc EXCEPT ![c] = "idle"]
                 /\ atCall' = [atCall EXCEPT ![c] = "none"]
                 /\ running' = 0
            [] r.ret.kind = "none" ->
                 /\ apc' = [apc EXCEPT ![c] = "await"]
                 /\ UNCHANGED <<returned, atCall, running>>
            [] OTHER ->
                 /\ apc' = [apc EXCEPT ![c] = "panicked"]
                 /\ running' = 0
                 /\ UNCHANGED <<returned, atCall>>
    /\ UNCHANGED <<produced, wakeup, pollin, ready, abandoned, ipc>>
    /\ UNCHANGED <<symVars, perfVars, mapVars, pipeVars>>

\* self.poll_fd.readable().await: the guard is returned at once when the
\* readiness is cached, else the call is suspended.
AsyncAwait(c) ==
    /\ running = c
    /\ apc[c] = "await"
    /\ IF ready
       THEN apc' = [apc EXCEPT ![c] = "woken"] /\ UNCHANGED running
       ELSE apc' = [apc EXCEPT ![c] = "wait"] /\ running' = 0
    /\ UNCHANGED <<ring, produced, wakeup, pollin, ready, returned,
                   abandoned, atCall, ipc>>
    /\ UNCHANGED <<symVars, perfVars, mapVars, pipeVars>>

\* The reactor sees POLLIN on the descriptor: it caches the readiness and
\* wakes every suspended call.
Reactor ==
    /\ spc = "async"
    /\ pollin
    /\ pollin' = FALSE
    /\ ready' = TRUE
    /\ apc' = [c \in Callers |->
                  IF apc[c] = "wait" THEN "notified" ELSE apc[c]]
    /\ UNCHANGED <<ring, produced, wakeup, running, returned, abandoned,
                   atCall, ipc>>
    /\ UNCHANGED <<symVars, perfVars, mapVars, pipeVars>>

\* The scheduler polls a woken call again: readable() returns the guard.
AsyncResume(c) ==
    /\ running = 0
    /\ apc[c] = "notified"
    /\ apc' = [apc EXCEPT ![c] = "woken"]
    /\ running' = c
    /\ UNCHANGED <<ring, produced, wakeup, pollin, ready, returned,
                   abandoned, atCall, ipc>>
    /\ UNCHANGED <<symVars, perfVars, mapVars, pipeVars>>

\* guard.clear_ready(), and the loop starts over.
AsyncClear(c) ==
    /\ running = c
    /\ apc[c] = "woken"
    /\ ready' = ClearReady(ready)
    /\ apc' = [apc EXCEPT ![c] = AfterClear]
    /\ UNCHANGED <<ring, produced, wakeup, pollin, running, returned,
                   abandoned, atCall, ipc>>
    /\ UNCHANGED <<symVars, perfVars, mapVars, pipeVars>>

\* The future of a suspended call is dropped by its owner.
AsyncCancel(c) ==
    /\ apc[c] \in {"wait", "notified"}
    /\ apc' = Abandon(apc, c)
    /\ abandoned' = TRUE
    /\ atCall' = [atCall EXCEPT ![c] = "none"]
    /\ UNCHANGED <<ring, produced, wakeup, pollin, ready, running,
                   returned, ipc>>
    /\ UNCHANGED <<symVars, perfVars, mapVars, pipeVars>>

\* The AsyncSampler goes out of scope while no call borrows it.
DropAsyncSampler ==
    /\ spc = "async"
    /\ \A c \in Callers : apc[c] \in {"idle", "panicked"}
    /\ spc' = "dropped"
    /\ handleLog' = PerfEventHandleDrop(handleLog)
    /\ UNCHANGED <<page_size, openArgs, lastSample>>
    /\ UNCHANGED <<symVars, mapVars, chanVars, pipeVars>>

Call == \E c \in Callers : AsyncCall(c)

Check == \E c \in Callers : AsyncCheck(c)

Await == \E c \in Callers : AsyncAwait(c)

Resume == \E c \in Callers : AsyncResume(c)

Clear == \E c \in Callers : AsyncClear(c)

Cancel == \E c \in Callers : AsyncCancel(c)

-----------------------------------------------------------------------------
(* Iterator for Sampler *)

\* A match that returns whatever get_sample gave.
IterReturnsAlways(x) == TRUE

\* match self.get_sample() { None => (), x => return x }
IterReturns(x) == x # None

\* sampler.next() is called.
IterNext ==
    /\ spc = "sampler"
    /\ ipc = "idle"
    /\ ipc' = "poll"
    /\ UNCHANGED <<ring, produced, wakeup, pollin, ready, apc, running,
                   returned, abandoned, atCall>>
    /\ UNCHANGED <<symVars, perfVars, mapVars, pipeVars>>

\* One turn of the loop up to its return or to the yield.
IterPoll ==
    /\ ipc = "poll"
    /\ LET r == ChannelGetSample(ring) IN
       /\ ring' = r.rest
       /\ CASE r.ret.kind = "panic" ->
                 ipc' = "panicked" /\ UNCHANGED returned
            [] r.ret.kind # "panic" /\ IterReturns(r.ret.sample) ->
                 /\ returned' = Append(returned,
                                       [caller |-> 0, ret |-> r.ret.sample,
                                        abandoned |-> FALSE])
                 /\ ipc' = "idle"
            [] OTHER ->
                 ipc' = "yield" /\ UNCHANGED returned
    /\ UNCHANGED <<produced, wakeup, pollin, ready, apc, running,
                   abandoned, atCall>>
    /\ UNCHANGED <<symVars, perfVars, mapVars, pipeVars>>

\* thread::yield_now() returns and the loop starts over.
IterYield ==
    /\ ipc = "yield"
    /\ ipc' = "poll"
    /\ UNCHANGED <<ring, produced, wakeup, pollin, ready, apc, running,
                   returned, abandoned, atCall>>
    /\ UNCHANGED <<symVars, perfVars, mapVars, pipeVars>>

-----------------------------------------------------------------------------
(* SymbolResolver::resolve and its addr2line child, line by line *)

\* Addresses resolve is called with; the last one lies in an inlined
\* function.
PipeAddrs == {0, 26, 4096}

\* The file the child was started for.
PipeFile == "/bin/app"

\* addr2line -i prints one more pair of lines for every function the
\* address was inlined into.
Inlined(address) == address = 4096

\* writeln!(&mut self.input, "{:#x}", address): 0x, the hexadecimal digits
\* and a newline.
RequestLine(address) == <<"0", "x">> \o HexOf(address) \o <<"\n">>

\* A String::pop that takes nothing off.
KeepNewline(text) == text

\* String::pop(): the text without its last character, if it has one.
Pop(text) == IF text = <<>> THEN text ELSE SubSeq(text, 1, Len(text) - 1)

\* The address addr2line reads from a line: hexadecimal, with or without 0x.
ChildParse(line) ==
    LET text == SubSeq(line, 1, Len(line) - 1)
        digits == IF Len(text) >= 2 /\ SubSeq(text, 1, 2) = <<"0", "x">>
                  THEN SubSeq(text, 3, Len(text)) ELSE text
    IN  FromStrRadix16(digits)

\* The lines addr2line -ifCe file prints for a line of its input: the
\* function and the location, once more for the caller of an inlined
\* function.
ChildAnswer(line) ==
    LET address == ChildParse(line)[1]
        own == <<Append(Addr2Line(PipeFile, address).func, "\n"),
                 Append(Addr2Line(PipeFile, address).file, "\n")>>
    IN  IF Inlined(address)
        THEN own \o <<<<"fn", "caller", "\n">>, <<"loc", "caller", "\n">>>>
        ELSE own

PipeIdle ==
    /\ toChild = <<>>
    /\ fromChild = <<>>
    /\ asked = <<>>
    /\ answers = <<>>
    /\ rpc = "idle"
    /\ function_name = <<>>
    /\ wrote = 0
    /\ taken = 0

\* resolve(address) up to the first read: the address is written.
ResolveWrite ==
    /\ rpc = "idle"
    /\ Len(asked) < MaxCalls
    /\ \E address \in PipeAddrs :
          /\ toChild' = Append(toChild, RequestLine(address))
          /\ asked' = Append(asked, address)
    /\ wrote' = wrote + 1
    /\ rpc' = "written"
    /\ UNCHANGED <<fromChild, answers, function_name, taken>>
    /\ UNCHANGED <<symVars, perfVars, mapVars, chanVars>>

\* addr2line reads a line and prints what it resolves to.
ChildAnswers ==
    /\ toChild # <<>>
    /\ toChild' = Tail(toChild)
    /\ fromChild' = fromChild \o ChildAnswer(Head(toChild))
    /\ UNCHANGED <<asked, answers, rpc, function_name, wrote, taken>>
    /\ UNCHANGED <<symVars, perfVars, mapVars, chanVars>>

\* self.output.read_line(&mut function_name) and function_name.pop()
ResolveReadFunction ==
    /\ rpc = "written"
    /\ fromChild # <<>>
    /\ function_name' = Pop(Head(fromChild))
    /\ fromChild' = Tail(fromChild)
    /\ taken' = taken + 1
    /\ rpc' = "read1"
    /\ UNCHANGED <<toChild, asked, answers, wrote>>
    /\ UNCHANGED <<symVars, perfVars, mapVars, chanVars>>

\* self.output.read_line(&mut source), source.pop() and the return
ResolveReadSource ==
    /\ rpc = "read1"
    /\ fromChild # <<>>
    /\ answers' = Append(answers, [func |-> function_name,
                                   file |-> Pop(Head(fromChild))])
    /\ fromChild' = Tail(fromChild)
    /\ taken' = taken + 1
    /\ function_name' = <<>>
    /\ rpc' = "idle"
    /\ UNCHANGED <<toChild, asked, wrote>>
    /\ UNCHANGED <<symVars, perfVars, mapVars, chanVars>>

-----------------------------------------------------------------------------
(* Specifications *)

PerfIdle ==
    /\ page_size = 4096
    /\ spc = "init"
    /\ handleLog = <<>>
    /\ openArgs = None
    /\ lastSample = NoSample

Init ==
    /\ SymIdle(Snapshots(MaxRegions))
    /\ PerfIdle /\ MapIdle /\ ChannelIdle /\ PipeIdle

Next == New \/ Resolve \/ ReturnToCaller \/ ChildLeaves \/ DropPidResolver

\* The symbol index under single-address resolution.
Spec == Init /\ [][Next]_vars

InitSample ==
    /\ SymIdle(SampleSnapshots)
    /\ PerfIdle /\ MapIdle /\ ChannelIdle /\ PipeIdle

NextSample ==
    New \/ ResolveSample \/ ReturnToCaller \/ ChildLeaves \/ DropPidResolver

\* The symbol index under whole-sample resolution.
SpecSample == InitSample /\ [][NextSample]_vars

NextIndex ==
    \/ New
    \/ Resolve
    \/ ResolveSample
    \/ ReturnToCaller
    \/ ChildLeaves
    \/ DropPidResolver

\* The symbol index under both kinds of resolution, in any order.
SpecIndex == InitSample /\ [][NextIndex]_vars

InitPerf ==
    SymIdle({<<>>}) /\ PerfStart /\ MapIdle /\ ChannelIdle /\ PipeIdle

NextPerf ==
    \/ SamplerNewCpu
    \/ SamplerNewPid
    \/ PerfEventHandleNew
    \/ PerfEventHandleStart
    \/ PerfEventHandleStop
    \/ FromSync
    \/ GetSample
    \/ DropHandle

\* The perf handle: opening, sampling and release.
SpecPerf == InitPerf /\ [][NextPerf]_vars

InitMaps ==
    SymIdle({<<>>}) /\ PerfIdle /\ MapStart /\ ChannelIdle /\ PipeIdle

NextMaps == ReadMaps

SpecMaps == InitMaps /\ [][NextMaps]_vars

InitAsync ==
    /\ SymIdle({<<>>}) /\ MapIdle /\ PipeIdle
    /\ ChannelStart("async", ChannelFrequencies)

NextAsync ==
    \/ KernelWrite
    \/ Reactor
    \/ Call
    \/ Check
    \/ Await
    \/ Resume
    \/ Clear
    \/ Cancel
    \/ DropAsyncSampler

SpecAsync == InitAsync /\ [][NextAsync]_vars

\* The AsyncSampler with callers whose stacks may be deeper than the
\* callchain limit.
NextAsyncDeep ==
    \/ KernelWrite
    \/ KernelWriteDeep
    \/ Reactor
    \/ Call
    \/ Check
    \/ Await
    \/ Resume
    \/ Clear
    \/ Cancel
    \/ DropAsyncSampler

SpecAsyncDeep == InitAsync /\ [][NextAsyncDeep]_vars

\* The reactor runs, a running task goes on to its next suspension, and
\* the scheduler, which polls woken tasks in the order they were woken,
\* gets to every woken task however often other tasks run in between; the
\* kernel, the callers and the owners of the futures are free.
FairAsync ==
    /\ WF_vars(Reactor)
    /\ \A c \in Callers :
          /\ WF_vars(AsyncCheck(c))
          /\ WF_vars(AsyncAwait(c))
          /\ SF_vars(AsyncResume(c))
          /\ WF_vars(AsyncClear(c))

FairSpecAsync == InitAsync /\ [][NextAsync]_vars /\ FairAsync

InitIter ==
    /\ SymIdle({<<>>}) /\ MapIdle /\ PipeIdle
    /\ ChannelStart("sampler", Frequencies)

NextIter == KernelWrite \/ IterNext \/ IterPoll \/ IterYield

\* The thread that called next keeps running: yield_now returns.
InitPipe ==
    SymIdle({<<>>}) /\ PerfIdle /\ MapIdle /\ ChannelIdle /\ PipeIdle

NextPipe ==
    ResolveWrite \/ ChildAnswers \/ ResolveReadFunction \/ ResolveReadSource

SpecPipe == InitPipe /\ [][NextPipe]_vars

FairSpecIter ==
    InitIter /\ [][NextIter]_vars /\ WF_vars(IterPoll) /\ WF_vars(IterYield)

-----------------------------------------------------------------------------
(* The symbol index: properties *)

\* The regions of the snapshot that enclose ip.
Enclosing(ip) ==
    {k \in 1 .. Len(mapped_regions) :
        mapped_regions[k].begin <= ip /\ ip < mapped_regions[k].end}

\* C1: resolve(ip) of an ip inside a region R of the snapshot writes one
\* request, to the pooled translator of R's file, for the address
\* ip - R.begin + R.offset; also when ip is R.begin and another region
\* ends there.
C1_ResolveSelectsEnclosingRegion ==
    (pc = "ready" /\ lastCall.op = "resolve") =>
        \A k \in Enclosing(lastCall.arg) :
            LET R == mapped_regions[k] IN
            lastCall.sent =
                <<[idx |-> Position(resolvers, R.file),
                   address |-> lastCall.arg - R.begin + R.offset]>>

\* C2: resolve(ip) of an ip no region of the snapshot encloses (below the
\* first, at or above the last end, in a gap, or with no region at all)
\* returns None and writes to no translator.
C2_OutsideEveryRegionIsUnknown ==
    (pc = "ready" /\ lastCall.op = "resolve"
                  /\ Enclosing(lastCall.arg) = {}) =>
        /\ lastCall.ret = None
        /\ lastCall.sent = <<>>

\* resolve was called for an address in the gap between two regions.
C2_GapWitness ==
    /\ pc = "ready"
    /\ lastCall.op = "resolve"
    /\ lastCall.ret = None
    /\ \E j, k \in 1 .. Len(mapped_regions) :
          /\ mapped_regions[j].end <= lastCall.arg
          /\ lastCall.arg < mapped_regions[k].begin

\* The paths of the snapshot.
SnapshotFiles == {mapped_regions[k].file : k \in 1 .. Len(mapped_regions)}

\* C3: after PidResolver::new the pool holds exactly one entry per distinct
\* path of the snapshot, and exactly one child was spawned per distinct
\* path.
C3_OneTranslatorPerPath ==
    pc = "ready" =>
        /\ {resolvers[i].path : i \in 1 .. Len(resolvers)} = SnapshotFiles
        /\ \A i, j \in 1 .. Len(resolvers) :
              resolvers[i].path = resolvers[j].path => i = j
        /\ \A f \in Files :
              Cardinality({c \in 1 .. Len(workers) : workers[c].path = f})
                  = IF f \in SnapshotFiles THEN 1 ELSE 0

\* A resolver was built from three regions, the first and the last of one
\* file and the middle one of another.
C3_SharedPathWitness ==
    /\ pc = "ready"
    /\ Len(mapped_regions) = 3
    /\ mapped_regions[1].file = mapped_regions[3].file
    /\ mapped_regions[1].file # mapped_regions[2].file
    /\ Len(resolvers) = 2

\* The children as the i-th resolve of a resolve_sample call finds them: an
\* exiting child that an earlier entry of the call wrote to has exited.
ChildrenAt(chain, i) ==
    LET written ==
            {resolvers[r.sent[1].idx].child :
                r \in {q \in {PidResolve(regions, resolvers, lastCall.before,
                                         chain[j]) : j \in 1 .. i - 1} :
                          q.sent # <<>>}}
    IN  [c \in 1 .. Len(lastCall.before) |->
            IF c \in written THEN AfterResolve(lastCall.before[c])
            ELSE lastCall.before[c]]

\* C9: resolve_sample returns a callchain of the input callchain's length,
\* whose i-th entry is what resolve gives for the i-th input entry (None
\* where it fails), an ip that is what resolve gives for the sample's ip,
\* and the input sample unchanged as orig.
C9_ResolveSamplePositional ==
    (pc = "ready" /\ lastCall.op = "resolve_sample") =>
        LET sample == lastCall.arg
            chain == sample.callchain
            out == lastCall.ret
        IN  /\ out.orig = sample
            /\ Len(out.callchain) = Len(chain)
            /\ \A i \in 1 .. Len(chain) :
                  out.callchain[i] =
                      PidResolve(regions, resolvers, ChildrenAt(chain, i),
                                 chain[i]).ret
            /\ out.ip = PidResolve(regions, resolvers,
                                   ChildrenAt(chain, Len(chain) + 1),
                                   sample.ip).ret

\* resolve_sample returned an unknown entry followed by a resolved one.
C9_UnknownThenKnownWitness ==
    /\ pc = "ready"
    /\ lastCall.op = "resolve_sample"
    /\ Len(lastCall.arg.callchain) = 2
    /\ Len(lastCall.ret.callchain) = 2
    /\ lastCall.ret.callchain[1] = None
    /\ IsSome(lastCall.ret.callchain[2])

\* C10: a refused spawn for one file costs the resolution against that file
\* only: PidResolver::new still yields a resolver.
C10_SpawnFailureKeepsResolver ==
    pc # "init" => pc \in {"ready", "dropped"}

-----------------------------------------------------------------------------
(* The perf handle: properties *)

\* C4: for a record of at least the fixed header's bytes, get_sample
\* returns a Sample whose callchain has the reported count of entries,
\* clamped to the capacity of 123.
C4_CallchainClampedToCapacity ==
    (lastSample.op = "get_sample" /\ lastSample.size >= FIXED_HEADER_SIZE) =>
        /\ lastSample.ret.kind = "some"
        /\ Len(lastSample.ret.sample[1].callchain) =
               IF lastSample.entries <= CALLCHAIN_DEPTH
               THEN lastSample.entries ELSE CALLCHAIN_DEPTH

\* C5: get_sample never panics, whatever the byte count and the record; a
\* read of fewer bytes than the fixed header returns None.
C5_GetSampleNeverPanics ==
    lastSample.op = "get_sample" =>
        /\ lastSample.ret.kind \in {"none", "some"}
        /\ lastSample.size < FIXED_HEADER_SIZE => lastSample.ret.kind = "none"

\* The positions of the log at which the handle is released.
Closes == {i \in 1 .. Len(handleLog) : handleLog[i] = "pe_close"}

\* C6: a created handle is released exactly once on every exit path:
\* pe_close is called once, right after a pe_stop, nothing follows it, and
\* explicit stop() calls release nothing.
C6_ReleasedExactlyOnce ==
    /\ Cardinality(Closes) <= 1
    /\ \A i \in Closes :
          /\ i = Len(handleLog)
          /\ i > 1
          /\ handleLog[i - 1] = "pe_stop"
    /\ spc \in {"err", "panicked", "dropped"} => Cardinality(Closes) = 1
    /\ spc \in {"handle", "sampler", "async"} => Closes = {}

\* A handle was stopped twice by its owner and then dropped.
C6_StoppedTwiceThenDroppedWitness ==
    /\ spc = "dropped"
    /\ Cardinality({i \in 1 .. Len(handleLog) : handleLog[i] = "pe_stop"}) >= 3
    /\ Cardinality(Closes) = 1

\* C7: a request for any CPU and any process together never reaches
\* pe_open_event_sampler.
C7_AnyCpuAnyPidNeverOpened ==
    openArgs # None => ~(openArgs[1].cpu = -1 /\ openArgs[1].pid = -1)

\* C8: the page count Sampler::new opens with is the smallest power of two
\* p >= 1 with p * page_size >= 10 * frequency * record size.
C8_PageCountCoversWindow ==
    (openArgs # None /\ openArgs[1].via = "Sampler::new") =>
        LET p == openArgs[1].num_pages
            need == BUFFER_SIZE_SECS * openArgs[1].frequency * SampleSize
        IN  /\ p = NextPowerOfTwo(p)
            /\ p * page_size >= need
            /\ p > 1 => (p \div 2) * page_size < need

-----------------------------------------------------------------------------
(* The translator children: properties *)

\* C11: every spawned child is killed and then reaped exactly once on every
\* exit path (drop of the PidResolver, early return of PidResolver::new);
\* none is left running or unreaped, none is killed or waited for twice.
C11_ChildrenReapedExactlyOnce ==
    /\ \A c \in 1 .. Len(workers) :
          /\ workers[c].kills <= 1
          /\ workers[c].waits <= workers[c].kills
          /\ workers[c].status # "blocked"
    /\ pc \in {"err", "dropped"} =>
          \A c \in 1 .. Len(workers) :
              /\ workers[c].kills = 1
              /\ workers[c].waits = 1
              /\ workers[c].status = "reaped"
    /\ pc = "ready" =>
          \A c \in 1 .. Len(workers) :
              workers[c].kills = 0 /\ workers[c].waits = 0

\* PidResolver::new returned early on a refused spawn after another child
\* had been spawned.
C11_EarlyReturnWitness ==
    /\ pc = "err"
    /\ Len(workers) >= 1
    /\ \A c \in 1 .. Len(workers) : workers[c].status = "reaped"

\* C12: for an ip inside an indexed region, any failure of the round trip
\* with the translator (the write fails, the child has gone, its output is
\* at end-of-file) makes resolve return None: never a symbol built from
\* response lines that were not there.
C12_TranslationFailureIsUnknown ==
    (pc = "ready" /\ lastCall.op = "resolve" /\ lastCall.sent # <<>>) =>
        LET c == resolvers[lastCall.sent[1].idx].child
            w == lastCall.before[c]
        IN  /\ w.status # "running" => lastCall.ret = None
            /\ IsSome(lastCall.ret) =>
                  lastCall.ret[1] = Addr2Line(w.path, lastCall.sent[1].address)

-----------------------------------------------------------------------------
(* The map listing: properties *)

CountOf(src, ch) == Cardinality({i \in 1 .. Len(src) : src[i] = ch})

\* The text up to the k-th space of src, from after the space before it.
FieldOf(src, k) ==
    LET spaces == {i \in 1 .. Len(src) : src[i] = " "}
        Nth(n) == CHOOSE i \in spaces :
                      Cardinality({j \in spaces : j < i}) = n - 1
    IN  SubSeq(src, IF k = 1 THEN 1 ELSE Nth(k - 1) + 1, Nth(k) - 1)

NotHex(text) ==
    \/ text = <<>>
    \/ \E i \in 1 .. Len(text) : \A d \in 1 .. 16 : HexDigits[d] # text[i]

\* A line with fewer than six fields, a range without '-', or a begin, end
\* or offset that is no hexadecimal number.
Defective(text) ==
    \/ CountOf(text, " ") < 5
    \/ LET range == FieldOf(text, 1)
           dash == CHOOSE i \in 1 .. Len(range) : range[i] = "-"
       IN  \/ CountOf(range, "-") = 0
           \/ NotHex(SubSeq(range, 1, dash - 1))
           \/ NotHex(SubSeq(range, dash + 1, Len(range)))
    \/ NotHex(FieldOf(text, 3))

\* C13: PIDInfo::new returns the complete region list, one region per
\* line in line order, or an error; one defective line fails the whole
\* snapshot.
C13_WholeSnapshotOrError ==
    info # None =>
        /\ info[1].ok =>
              /\ Len(info[1].mapped_regions) = Len(maps)
              /\ \A i \in 1 .. Len(maps) :
                    ParseMapLine(maps[i]) = Some(info[1].mapped_regions[i])
        /\ (\E i \in 1 .. Len(maps) :
                maps[i] = None \/ Defective(maps[i][1])) => ~info[1].ok
        /\ ~info[1].ok => info[1].mapped_regions = <<>>

\* A listing whose first line is a region and whose last line is defective
\* has been read.
C13_DefectiveLastLineWitness ==
    /\ info # None
    /\ Len(maps) = 2
    /\ maps[1] # None /\ maps[1][1] \in WellFormedLines
    /\ maps[2] # None /\ Defective(maps[2][1])
    /\ ~info[1].ok

\* C14: for every well-formed line parse_map_line succeeds and recovers
\* begin, end and offset as the numbers that were formatted and the path
\* as the trailing field without the filling, also for an empty path, a
\* pseudo-path and a path with spaces.
C14_ParseRecoversFields ==
    /\ \A i \in 1 .. Len(maps) : \A f \in MapFields :
          maps[i] = Some(LineOf(f)) =>
              /\ ParseMapLine(maps[i]) = Some(RegionOf(f))
              /\ (info # None /\ info[1].ok) =>
                    info[1].mapped_regions[i] = RegionOf(f)
    /\ (info # None /\ \A i \in 1 .. Len(maps) :
            maps[i] # None /\ maps[i][1] \in WellFormedLines) => info[1].ok

\* The line of an anonymous region and the line of a deleted file with a
\* space in its name have been parsed.
C14_PseudoPathsWitness ==
    /\ info # None /\ info[1].ok
    /\ Len(maps) = 2
    /\ info[1].mapped_regions[1].file = <<>>
    /\ info[1].mapped_regions[1].begin = 4194304
    /\ CountOf(info[1].mapped_regions[2].file, " ") = 2
    /\ info[1].mapped_regions[2].offset = 4096

-----------------------------------------------------------------------------
(* The raw record: properties *)

\* C18: the raw record is 1024 bytes: a header of 40 bytes (ip, pid, tid,
\* time, cpu, padding, count) followed by 123 slots of 8 bytes; the fixed
\* header size get_sample accepts a read from is the total less 8 * 123.
C18_RawRecordLayout ==
    /\ RawSampleSize = 1024
    /\ SizeOf(RawSampleFields) = RawSampleSize
    /\ Len(RawSampleFields) = 8
    /\ OffsetOf(RawSampleFields, 8) = 40
    /\ \A k \in 1 .. 7 :
          OffsetOf(RawSampleFields, k + 1) =
              OffsetOf(RawSampleFields, k) + RawSampleFields[k].size
    /\ FIXED_HEADER_SIZE = 40
    /\ lastSample.op = "get_sample" =>
          (lastSample.ret.kind = "none" <=> lastSample.size < 40)

\* A read of exactly 40 bytes was accepted, a read of 39 bytes is not.
C18_HeaderAloneAcceptedWitness ==
    /\ lastSample.op = "get_sample"
    /\ lastSample.size = 40
    /\ lastSample.ret.kind = "some"
    /\ SamplerGetSample(RawSample(39, 0), 39).kind = "none"

-----------------------------------------------------------------------------
(* AsyncSampler::get_sample: properties *)

\* C15: a get_sample call that finds a record buffered when it is made
\* never suspends; a call is suspended only at readable(), with no cached
\* readiness, right after a try of the buffer that found it empty; and a
\* resumed call clears the readiness and then tries the buffer, before it
\* can wait again.
C15_ChecksBeforeWaiting ==
    /\ [](\A c \in Callers :
            atCall[c] = "buffered" => (apc[c] = "check" /\ ring # <<>>))
    /\ [][\A c \in Callers :
            /\ (apc[c] # "wait" /\ apc'[c] = "wait") =>
                  (apc[c] = "await" /\ ~ready)
            /\ (apc[c] # "await" /\ apc'[c] = "await") =>
                  (apc[c] = "check" /\ ring = <<>>)
            /\ (apc[c] = "notified" /\ apc'[c] # "notified") =>
                  apc'[c] \in {"woken", "idle"}
            /\ (apc[c] = "woken" /\ apc'[c] # "woken") =>
                  (apc'[c] = "check" /\ ~ready')]_vars

\* A call that began on an empty buffer was suspended, woken by the only
\* notification so far, has cleared the readiness and is about to try the
\* buffer, which now holds a record.
C15_ResumedAndClearedWitness ==
    \E c \in Callers :
        /\ apc[c] = "check" /\ atCall[c] = "empty"
        /\ \A d \in Callers \ {c} : apc[d] = "idle"
        /\ produced = openArgs[1].poll_freq
        /\ ring # <<>> /\ returned = <<>> /\ ~abandoned
        /\ ~pollin /\ ~ready

\* The k-th record the kernel wrote.
Written(k) == KernelRecord(k, ChainOf(k))

\* C16: abandoning a suspended get_sample call changes nothing but the
\* call: the buffer, the cached readiness, the other calls and the handle,
\* still open and started, stay as they are and the caller may call again;
\* every record written is in the buffer or was returned, in the order
\* written, so a later call returns the next buffered record.
C16_AbandonLeavesChannelReusable ==
    /\ [](/\ Len(returned) + Len(ring) = produced
          /\ \A k \in 1 .. Len(returned) :
                returned[k].ret = Some(SampleOf(Written(k)))
          /\ \A j \in 1 .. Len(ring) : ring[j] = Written(Len(returned) + j)
          /\ spc = "async" =>
                handleLog = <<"pe_open_event_sampler", "pe_start">>)
    /\ [][(abandoned' /\ (~abandoned \/ \E c \in Callers :
                apc[c] \in {"wait", "notified"} /\ apc'[c] = "idle")) =>
            /\ \E c \in Callers :
                  /\ apc[c] \in {"wait", "notified"}
                  /\ apc' = [apc EXCEPT ![c] = "idle"]
            /\ UNCHANGED <<ring, produced, wakeup, pollin, ready, returned>>
            /\ UNCHANGED <<spc, handleLog, openArgs>>]_vars

\* After a suspended call was abandoned, a call has returned the first
\* record written and the second one is buffered.
C16_ReturnedAfterAbandonWitness ==
    /\ Len(returned) = 1
    /\ returned[1].abandoned
    /\ returned[1].ret[1].time = 1
    /\ Len(ring) = 1
    /\ spc = "async"

\* A call of caller c is pending.
Pending(c) == apc[c] \notin {"idle", "panicked"}

\* The oldest record of the buffer is one the kernel has raised readiness
\* for: it was written before the wakeup counter last overflowed.
Raised == ring # <<>> /\ Head(ring).time <= produced - wakeup

\* The buffer is empty and no notification is on its way or will come.
Quiet == ring = <<>> /\ ~pollin /\ produced = MaxRecords

\* C19: with a fair reactor and scheduler, whenever a call is pending and
\* the buffer holds a record readiness was raised for, the call eventually
\* returns a sample (or it is abandoned, or other calls return every such
\* record); a suspended call is resumed by a notification only; and once
\* the buffer is empty and no notification comes any more, every pending
\* call ends up suspended.
C19_WakeupNotLostNoSpin ==
    /\ \A c \in Callers :
          (Pending(c) /\ Raised) ~> (~Pending(c) \/ ~Raised)
    /\ [][\A c \in Callers :
            (apc[c] = "wait" /\ apc'[c] # "wait") =>
                \/ pollin /\ ready' /\ apc'[c] = "notified"
                \/ apc'[c] = "idle" /\ abandoned']_vars
    /\ \A c \in Callers :
          (Quiet /\ Pending(c)) ~> (apc[c] = "wait" \/ ~Pending(c))

\* With a notification every second record: two records were written, the
\* notification was delivered and cleared, and one sample was returned.
C19_NotifiedAndReturnedWitness ==
    /\ openArgs[1].poll_freq = 2
    /\ produced = 2 /\ Len(returned) = 1 /\ Len(ring) = 1
    /\ ~pollin /\ ~ready /\ ~abandoned
    /\ \A c \in Callers : apc[c] = "idle"

-----------------------------------------------------------------------------
(* Iterator for Sampler: properties *)

\* C17: next never returns None: it returns only from a turn in which
\* get_sample produced a record, and returns that record as decoded;
\* after a turn that found nothing it yields and polls again; and with a
\* record buffered a pending next eventually returns.
C17_IteratorNeverEnds ==
    /\ [](\A k \in 1 .. Len(returned) :
            /\ returned[k].ret # None
            /\ returned[k].ret = Some(SampleOf(Written(k))))
    /\ [][/\ (ipc = "poll" /\ ipc' = "idle") =>
                (ring # <<>> /\ Len(returned') = Len(returned) + 1)
          /\ (ipc = "poll" /\ ipc' \notin {"poll", "idle"}) =>
                (ring = <<>> /\ ipc' = "yield" /\ returned' = returned)
          /\ (ipc = "yield" /\ ipc' # "yield") =>
                (ipc' = "poll" /\ returned' = returned)]_vars
    /\ (ipc # "idle" /\ ring # <<>>) ~> (ipc = "idle")

\* next has returned every record written and a further call is between
\* two attempts on the empty buffer.
C17_SpinningAfterReturnsWitness ==
    /\ Len(returned) = MaxRecords
    /\ produced = MaxRecords
    /\ ipc = "yield"
    /\ ring = <<>>

-----------------------------------------------------------------------------
(* The line protocol: properties *)

\* C20: each resolve call writes one address line and reads two response
\* lines; as long as the child answered two lines to every request, no
\* response line is left unread when a call has returned, and the pair
\* returned for the k-th request is the child's answer to the k-th address.
C20_ProtocolInLockstep ==
    /\ wrote = Len(asked)
    /\ taken = 2 * Len(answers) + (IF rpc = "read1" THEN 1 ELSE 0)
    /\ Len(asked) = Len(answers) + (IF rpc = "idle" THEN 0 ELSE 1)
    /\ (\A k \in 1 .. Len(asked) : ~Inlined(asked[k])) =>
          /\ rpc = "idle" => (toChild = <<>> /\ fromChild = <<>>)
          /\ \A k \in 1 .. Len(answers) :
                answers[k] = Addr2Line(PipeFile, asked[k])

\* Three requests for two different addresses have been answered.
C20_ThreeRequestsWitness ==
    /\ rpc = "idle"
    /\ Len(answers) = 3
    /\ asked = <<26, 0, 26>>
    /\ answers[3] = Addr2Line(PipeFile, 26)

-----------------------------------------------------------------------------
(* The wakeup granularity: properties *)

\* C21: the wakeup granularity Sampler::new passes to the open call is
\* max(1, frequency / 10) in integer division: at least 1 for every
\* frequency, and from 10 Hz on the poll_freq samples of one notification
\* take at most 100 ms and more than 50 ms at the frequency asked for.
C21_WakeupEveryTenthOfASecond ==
    (openArgs # None /\ openArgs[1].via = "Sampler::new") =>
        LET f == openArgs[1].frequency
            w == openArgs[1].poll_freq
        IN  /\ w >= 1
            /\ f < 10 => w = 1
            /\ f >= 10 => (10 * w <= f /\ f < 10 * (w + 1))
            /\ f >= 10 => (1000 * w <= 100 * f /\ 2 * 1000 * w > 100 * f)

\* A sampler runs at 19 Hz with a notification for every sample, and one
\* could be opened at 100 Hz with a notification every ten samples.
C21_NineteenHertzWitness ==
    /\ spc = "sampler"
    /\ openArgs # None /\ openArgs[1].via = "Sampler::new"
    /\ openArgs[1].frequency = 19
    /\ openArgs[1].poll_freq = 1
    /\ PollFreq(100) = 10

-----------------------------------------------------------------------------
(* Concurrent get_sample calls: properties *)

\* The calls that were handed the k-th record written.
Receivers(k) ==
    {i \in 1 .. Len(returned) : returned[i].ret[1].time = k}

\* The places of the buffer that hold the k-th record written.
Buffered(k) == {j \in 1 .. Len(ring) : ring[j].time = k}

\* C22: with several get_sample calls pending on one AsyncSampler, every
\* record written is either still in the buffer or was returned by exactly
\* one call: none is returned twice, and none leaves the buffer without
\* being returned.
C22_EveryRecordToExactlyOneCaller ==
    \A k \in 1 .. produced :
        /\ Cardinality(Receivers(k)) <= 1
        /\ Cardinality(Receivers(k)) + Cardinality(Buffered(k)) = 1

\* Both callers were suspended together, and each has returned one of the
\* two records written.
C22_BothCallersServedWitness ==
    /\ Len(returned) = 2
    /\ returned[1].caller # returned[2].caller
    /\ \A c \in Callers : atCall[c] = "none" /\ apc[c] = "idle"
    /\ ring = <<>> /\ ~abandoned

-----------------------------------------------------------------------------
(* The region map and the translator pool: properties *)

\* The region of the snapshot the map entry keyed end was built from: the
\* last one that ends there, as insert replaces an entry of the same key.
BuiltFrom(end) ==
    LET ks == {k \in 1 .. Len(mapped_regions) : mapped_regions[k].end = end}
    IN  mapped_regions[CHOOSE k \in ks : \A j \in ks : j <= k]

\* The path each child of the pool serves.
PoolPaths == [c \in 1 .. Len(workers) |-> workers[c].path]

\* C23: once PidResolver::new has succeeded, and after any resolve and
\* resolve_sample calls, the region map has one entry per region end of
\* the snapshot, and each entry carries the bounds and offset of the region
\* it was built from and a resolver_idx that is an index of the pool whose
\* entry has that region's path; resolve and resolve_sample change neither
\* the region map nor the pool.
C23_RegionMapValidAndFixed ==
    /\ [](pc = "ready" =>
            /\ DOMAIN regions =
                  {mapped_regions[k].end : k \in 1 .. Len(mapped_regions)}
            /\ \A end \in DOMAIN regions :
                  LET R == BuiltFrom(end)
                      entry == regions[end]
                  IN  /\ entry.end = end
                      /\ entry.begin = R.begin
                      /\ entry.start_offset = R.offset
                      /\ entry.resolver_idx \in 1 .. Len(resolvers)
                      /\ resolvers[entry.resolver_idx].path = R.file)
    /\ [][(lastCall.op = "none" /\ lastCall'.op # "none") =>
            /\ UNCHANGED <<regions, resolvers, pc, mapped_regions>>
            /\ PoolPaths' = PoolPaths]_vars

\* On the snapshot of three regions, the first and the last of one file,
\* resolve_sample has written a request to a translator and the map
\* entries point at the pool entries 1, 2 and 1.
C23_AfterResolveSampleWitness ==
    /\ pc = "ready"
    /\ lastCall.op = "resolve_sample"
    /\ lastCall.sent # <<>>
    /\ Len(mapped_regions) = 3
    /\ [k \in 1 .. 3 |-> regions[mapped_regions[k].end].resolver_idx]
          = <<1, 2, 1>>

=============================================================================
